---- MODULE Spec2Model ----
(***************************************************************************)
(* Model of the Easy Highlight plugin (src/main.ts, the extended snapshot  *)
(* at lines 193-467).  Text is modelled character by character: a string   *)
(* is a sequence of one-character strings, a document is a sequence of     *)
(* lines, and character offsets are 0-based as in the source, so that the  *)
(* regular expressions and the range replacements of the toggle handler    *)
(* act on the model exactly as they act on the editor's text.              *)
(***************************************************************************)
EXTENDS Integers, Sequences, FiniteSets, TLC

VARIABLES
    doc,        \* the editor's text: a sequence of lines
    sel,        \* the editor's selection, NoSel once an edit has moved it
    colors,     \* this.settings.colors, the in-memory palette
    persisted,  \* the palette last written by saveData
    saves,      \* number of saveSettings calls issued so far
    notices,    \* errors reported to the user so far
    toggles,    \* number of toggle actions performed so far
    last,       \* observation of the most recent toggle
    anchor,     \* the first insertion into a mark-free document and the
                \* insertions that followed it with no removal in between
    rows,       \* the colour rows the settings tab shows, as display() built them
    inflight,   \* the saveData calls that have not completed yet
    tab,        \* observation of the most recent settings tab handler
    conv        \* a colour string and what the colour conversions make of it

vars == <<doc, sel, colors, persisted, saves, notices, toggles, last, anchor,
          rows, inflight, tab, conv>>

----------------------------------------------------------------------------
(* Bounds of the model. *)

MaxToggles == 3
MaxDeepToggles == 5
MaxPalette == 2
RandRes == 3

\* the palettes and the documents a behaviour starts from
BasePalette ==
    << <<"#", "0", "0", "0", "0", "f", "f">>,
       <<"#", "0", "0", "f", "f", "0", "0">>,
       <<"#", "f", "f", "0", "0", "0", "0">> >>
Palettes == {SubSeq(BasePalette, 1, k) : k \in 0..MaxPalette}
TextChars == {"A", "B"}
InitDocs == { << <<"A", "B">> >>, << <<"A">>, <<"B">> >> }

----------------------------------------------------------------------------
(* Literal text of the source. *)

MarkOpen == <<"<", "m", "a", "r", "k">>
MarkClose == <<"<", "/", "m", "a", "r", "k", ">">>
MarkCloseOpen == <<"<", "/", "m", "a", "r", "k">>
HighlightIndexEq == <<"h", "i", "g", "h", "l", "i", "g", "h", "t", "i", "n", "d", "e", "x", "=">>
TplIndexHead == <<"<", "m", "a", "r", "k", " ", "h", "i", "g", "h", "l", "i", "g", "h", "t", "i", "n", "d", "e", "x", "=", "\"">>
TplIndexMid == <<"\"", " ", "s", "t", "y", "l", "e", "=", "\"", "b", "a", "c", "k", "g", "r", "o", "u", "n", "d", "-", "c", "o", "l", "o", "r", ":", " ">>
TplHead == <<"<", "m", "a", "r", "k", " ", "s", "t", "y", "l", "e", "=", "\"", "b", "a", "c", "k", "g", "r", "o", "u", "n", "d", "-", "c", "o", "l", "o", "r", ":", " ">>
TplTail == <<";", "\"", ">">>
Undefined == <<"u", "n", "d", "e", "f", "i", "n", "e", "d">>
Newline == "\n"
Quotes == {"\"", "'"}
Digits == <<"0", "1", "2", "3", "4", "5", "6", "7", "8", "9">>

----------------------------------------------------------------------------
(* Strings and numbers. *)

Min(S) == CHOOSE x \in S : \A y \in S : x <= y
Max(S) == CHOOSE x \in S : \A y \in S : x >= y

\* pat occurs in text at 0-based offset i
HasAt(text, i, pat) ==
    /\ i >= 0
    /\ i + Len(pat) <= Len(text)
    /\ \A j \in 1..Len(pat) : text[i + j] = pat[j]

\* String.prototype.slice(start, end) for 0 <= start
Slice(text, start, end) ==
    LET e == IF end > Len(text) THEN Len(text) ELSE end
    IN  IF start >= e THEN <<>> ELSE SubSeq(text, start + 1, e)

IsDigit(c) == \E d \in 1..10 : Digits[d] = c
DigitVal(c) == (CHOOSE d \in 1..10 : Digits[d] = c) - 1

\* parseInt(s, 10) of a non-empty string of decimal digits
RECURSIVE ParseInt(_)
ParseInt(s) ==
    IF s = <<>> THEN 0
    ELSE 10 * ParseInt(SubSeq(s, 1, Len(s) - 1)) + DigitVal(s[Len(s)])

\* x | 0 : conversion to a signed 32-bit integer, the identity on
\* 0..2^31-1, which holds every number a document of the model can spell
ToInt32(x) == IF x <= 2147483647 THEN x ELSE x - 2147483647 - 2147483647 - 2

\* `${n}` for an integer n
RECURSIVE NatToString(_)
NatToString(n) ==
    IF n < 10 THEN <<Digits[n + 1]>>
    ELSE NatToString(n \div 10) \o <<Digits[(n % 10) + 1]>>

NumToString(n) == IF n < 0 THEN <<"-">> \o NatToString(0 - n) ELSE NatToString(n)

----------------------------------------------------------------------------
(* The regular expressions. *)

NoMatch == [index |-> -1, open |-> -1, close |-> -1, end |-> -1]

\* offset of the first ">" at or after offset i, or -1
FirstGt(text, i) ==
    LET S == {g \in i..(Len(text) - 1) : text[g + 1] = ">"}
    IN  IF S = {} THEN -1 ELSE Min(S)

\* /<mark[^>]*>(.*?)<\/mark>/ anchored at offset i: the opening tag runs to
\* the first ">", the inner text runs lazily to the first "</mark>" and may
\* not contain a line terminator
MatchMarkAt(text, i) ==
    IF ~HasAt(text, i, MarkOpen) THEN NoMatch
    ELSE LET g == FirstGt(text, i + 5)
         IN  IF g = -1 THEN NoMatch
             ELSE LET C == {c \in (g + 1)..(Len(text) - 7) :
                               /\ HasAt(text, c, MarkClose)
                               /\ \A k \in (g + 1)..(c - 1) : text[k + 1] # Newline}
                  IN  IF C = {} THEN NoMatch
                      ELSE [index |-> i, open |-> g + 1,
                            close |-> Min(C), end |-> Min(C) + 7]

\* markRegex.exec(text) with markRegex.lastIndex = lastIndex
ExecMarkRegex(text, lastIndex) ==
    LET S == {i \in lastIndex..(Len(text) - 1) :
                 text[i + 1] = "<" /\ MatchMarkAt(text, i) # NoMatch}
    IN  IF S = {} THEN NoMatch ELSE MatchMarkAt(text, Min(S))

\* all matches of the global mark regex, left to right
RECURSIVE MarkMatchesFrom(_, _)
MarkMatchesFrom(text, lastIndex) ==
    LET m == ExecMarkRegex(text, lastIndex)
    IN  IF m = NoMatch THEN <<>>
        ELSE <<m>> \o MarkMatchesFrom(text, m.end)

MarkMatches(text) == MarkMatchesFrom(text, 0)

\* markContent.replace(/<\/?mark[^>]*>/g, '')
RECURSIVE StripFrom(_, _)
StripFrom(s, i) ==
    IF i >= Len(s) THEN <<>>
    ELSE LET g == IF HasAt(s, i, MarkOpen) THEN FirstGt(s, i + 5)
                  ELSE IF HasAt(s, i, MarkCloseOpen) THEN FirstGt(s, i + 6)
                  ELSE -1
         IN  IF g = -1 THEN <<s[i + 1]>> \o StripFrom(s, i + 1)
             ELSE StripFrom(s, g + 1)

\* the replacement of line 289 with a pattern that misses closing tags
RECURSIVE StripOpenFrom(_, _)
StripOpenFrom(s, i) ==
    IF i >= Len(s) THEN <<>>
    ELSE LET g == IF HasAt(s, i, MarkOpen) THEN FirstGt(s, i + 5) ELSE -1
         IN  IF g = -1 THEN <<s[i + 1]>> \o StripOpenFrom(s, i + 1)
             ELSE StripOpenFrom(s, g + 1)

StripMarkTags_OpenOnly(s) == StripOpenFrom(s, 0)

StripMarkTags(s) == StripFrom(s, 0)

\* offsets p, inside the opening tag that starts at i and ends at the ">"
\* at g, where  highlightindex=["']?(\d+)  matches
IndexAttrsIn(text, i, g) ==
    {p \in (i + 5)..(g - 1) :
        /\ HasAt(text, p, HighlightIndexEq)
        /\ p + 15 < g
        /\ \/ IsDigit(text[p + 16])
           \/ text[p + 16] \in Quotes /\ p + 16 < g /\ IsDigit(text[p + 17])}

\* the digits captured by (\d+) for the attribute at offset p
RECURSIVE DigitRun(_, _)
DigitRun(text, d) ==
    IF d < Len(text) /\ IsDigit(text[d + 1])
    THEN <<text[d + 1]>> \o DigitRun(text, d + 1)
    ELSE <<>>

CapturedIndex(text, p) ==
    IF IsDigit(text[p + 16]) THEN DigitRun(text, p + 15) ELSE DigitRun(text, p + 16)

\* /<mark[^>]*highlightindex=["']?(\d+)["']?[^>]*>/.exec(content): the
\* leftmost "<mark" whose tag holds the attribute; the first [^>]* is
\* greedy, so the last attribute of that tag is the one captured.  The
\* result is the captured digits, or <<>> when there is no match.
ExecIndexRegex(content) ==
    LET S == {i \in 0..(Len(content) - 1) :
                 /\ content[i + 1] = "<"
                 /\ HasAt(content, i, MarkOpen)
                 /\ FirstGt(content, i + 5) # -1
                 /\ IndexAttrsIn(content, i, FirstGt(content, i + 5)) # {}}
    IN  IF S = {} THEN <<>>
        ELSE LET i == Min(S)
                 g == FirstGt(content, i + 5)
             IN  CapturedIndex(content, Max(IndexAttrsIn(content, i, g)))

----------------------------------------------------------------------------
(* The editor and the view. *)

\* editor.getValue() / view.data: the lines joined by line terminators (the
\* view's data is taken to be in step with the editor's text)
RECURSIVE Content(_)
Content(d) ==
    IF Len(d) = 0 THEN <<>>
    ELSE IF Len(d) = 1 THEN d[1]
    ELSE d[1] \o <<Newline>> \o Content(Tail(d))

\* editor.replaceRange(text, {line, ch: from}, {line, ch: to}) on one line;
\* the editor clips a position past the end of the line to the line's end
\* (in a line with enough text after the range nothing is clipped and the
\* replacement lands on whatever text is at those offsets)
ReplaceRange(line, text, from, to) ==
    LET f == IF from > Len(line) THEN Len(line) ELSE from
        t == IF to > Len(line) THEN Len(line) ELSE to
    IN  Slice(line, 0, f) \o text \o Slice(line, t, Len(line))

----------------------------------------------------------------------------
(* EasyHighlight. *)

\* Math.floor(Math.random() * (max - min + 1)) + min, where Math.random()
\* returns u / RandRes for some u in 0..RandRes-1
getRandomBetween(min, max, u) == ((u * (max - min + 1)) \div RandRes) + min

countMarkElements(content) == Len(MarkMatches(content))

\* TRUE when getColorIndexOffset finds no highlightindex and draws
DrawsOffset(content) == ExecIndexRegex(content) = <<>>

\* lines 328-343: the values getColorIndexOffset can return
getColorIndexOffset(content, palette) ==
    LET match == ExecIndexRegex(content)
    IN  IF match # <<>>
        THEN {ToInt32(ParseInt(match))}
        ELSE {getRandomBetween(0, Len(palette), u) : u \in 0..(RandRes - 1)}

\* the test of line 279 with the comparisons made inclusive
Overlaps_Inclusive(selectedStart, selectedEnd, markStartIndex, markEndIndex) ==
    selectedStart <= markEndIndex /\ selectedEnd >= markStartIndex

\* the test of line 279
Overlaps(selectedStart, selectedEnd, markStartIndex, markEndIndex) ==
    selectedStart < markEndIndex /\ selectedEnd > markStartIndex

\* the loop of lines 271-283: the spans pushed on marksToRemove
MarksToRemove(lineContent, selectedStart, selectedEnd) ==
    LET all == MarkMatches(lineContent)
        spans == [k \in 1..Len(all) |-> <<all[k].index, all[k].end>>]
    IN  SelectSeq(spans, LAMBDA sp : Overlaps(selectedStart, selectedEnd, sp[1], sp[2]))

\* lines 287-291: each span is cut out of the line content read before the
\* loop and written at its original offsets into the editor's current text
RECURSIVE RemoveMarks(_, _, _)
RemoveMarks(current, lineContent, spans) ==
    IF spans = <<>> THEN current
    ELSE LET start == spans[1][1]
             end == spans[1][2]
             markContent == Slice(lineContent, start, end)
             unmarkedContent == StripMarkTags(markContent)
         IN  RemoveMarks(ReplaceRange(current, unmarkedContent, start, end),
                         lineContent, Tail(spans))

\* line 296: indexOffset + markCount % length, NaN for an empty palette
ColorIndexIsNaN(palette) == Len(palette) = 0

ColorIndex(indexOffset, markCount, palette) ==
    IF ColorIndexIsNaN(palette) THEN 0
    ELSE indexOffset + (markCount % Len(palette))

\* line 298 and the template literal: colors[colorIndex] as text
HighlightColor(indexOffset, markCount, palette) ==
    LET colorIndex == ColorIndex(indexOffset, markCount, palette)
    IN  IF ~ColorIndexIsNaN(palette) /\ colorIndex >= 0 /\ colorIndex < Len(palette)
        THEN palette[colorIndex + 1]
        ELSE Undefined

\* lines 301-309
EmbedsIndex(markCount) == markCount = 0

HighlightedText(indexOffset, markCount, palette, selectedText) ==
    LET highlightColor == HighlightColor(indexOffset, markCount, palette)
    IN  IF EmbedsIndex(markCount)
        THEN TplIndexHead \o NumToString(indexOffset) \o TplIndexMid
                 \o highlightColor \o TplTail \o selectedText \o MarkClose
        ELSE TplHead \o highlightColor \o TplTail \o selectedText \o MarkClose

\* line 260 with the test of the selection left out
HasSelection_Always(selectedText) == TRUE

\* line 260: a string is truthy when it is not empty
HasSelection(selectedText) == selectedText # <<>>

NoSel == [line |-> -1, from |-> 0, to |-> 0]

NoToggle ==
    [path |-> "none", line |-> 0, from |-> 0, to |-> 0, preDoc |-> <<>>,
     spans |-> <<>>, markCount |-> 0, indexOffset |-> 0, drew |-> FALSE,
     embedded |-> FALSE]

NoAnchor == [valid |-> FALSE, o |-> 0, k |-> 0]

NoTabEvent ==
    [op |-> "none", index |-> 0, pre |-> <<>>, shown |-> <<>>, issued |-> <<>>,
     n |-> 0]

NoRGB == [r |-> 0, g |-> 0, b |-> 0]

NoConv == [hex |-> <<>>, done |-> FALSE, rgb |-> NoRGB, out |-> <<>>, error |-> "none"]

\* The toggle handler, lines 256-313.  It reads the selection, the current
\* line and the whole text from the editor; the edit it makes moves the
\* selection, so the user selects again before the next toggle.
highlightSelectedText ==
    LET lineNumber == sel.line
        lineContent == doc[lineNumber + 1]
        selectedText == Slice(lineContent, sel.from, sel.to)
        marksToRemove == MarksToRemove(lineContent, sel.from, sel.to)
        content == Content(doc)
        markCount == countMarkElements(content)
        seen == [NoToggle EXCEPT !.line = lineNumber, !.from = sel.from,
                                 !.to = sel.to, !.preDoc = doc]
    IN  /\ sel # NoSel
        /\ toggles' = toggles + 1
        /\ sel' = NoSel
        /\ IF ~HasSelection(selectedText)
           THEN /\ doc' = doc
                /\ last' = [seen EXCEPT !.path = "noop"]
                /\ anchor' = anchor
           ELSE IF marksToRemove # <<>>
           THEN /\ doc' = [doc EXCEPT ![lineNumber + 1] =
                              RemoveMarks(lineContent, lineContent, marksToRemove)]
                /\ last' = [seen EXCEPT !.path = "remove", !.spans = marksToRemove]
                /\ anchor' = NoAnchor
           ELSE \E indexOffset \in getColorIndexOffset(content, colors) :
                /\ doc' = [doc EXCEPT ![lineNumber + 1] =
                              ReplaceRange(lineContent,
                                  HighlightedText(indexOffset, markCount, colors, selectedText),
                                  sel.from, sel.to)]
                /\ last' = [seen EXCEPT !.path = "insert",
                               !.markCount = markCount,
                               !.indexOffset = indexOffset,
                               !.drew = DrawsOffset(content),
                               !.embedded = EmbedsIndex(markCount)]
                /\ anchor' = IF markCount = 0
                             THEN [valid |-> TRUE, o |-> indexOffset, k |-> 0]
                             ELSE IF anchor.valid
                             THEN [anchor EXCEPT !.k = anchor.k + 1]
                             ELSE anchor
        /\ UNCHANGED <<colors, persisted, saves, notices, rows, inflight, tab, conv>>

\* the selection end points tried on a line: the line's ends, the two sides
\* of every character of document text, and the ends of every mark
SelPoints(lineContent) ==
    LET all == MarkMatches(lineContent)
    IN  {p \in 0..Len(lineContent) :
            \/ p = 0
            \/ p = Len(lineContent)
            \/ p >= 1 /\ lineContent[p] \in TextChars
            \/ p < Len(lineContent) /\ lineContent[p + 1] \in TextChars
            \/ \E k \in 1..Len(all) : p = all[k].index \/ p = all[k].end}

\* The user places the cursor or selects text within one line; limit bounds
\* the number of toggles of a behaviour.
SelectWithin(limit) ==
    /\ sel = NoSel
    /\ toggles < limit
    /\ \E ln \in 0..(Len(doc) - 1) :
           LET points == SelPoints(doc[ln + 1])
           IN  \E from \in points, to \in points :
                   /\ from <= to
                   /\ sel' = [line |-> ln, from |-> from, to |-> to]
    /\ UNCHANGED <<doc, colors, persisted, saves, notices, toggles, last, anchor,
                   rows, inflight, tab, conv>>

Init ==
    /\ doc \in InitDocs
    /\ sel = NoSel
    /\ colors \in Palettes
    /\ persisted = colors
    /\ saves = 0
    /\ notices = <<>>
    /\ toggles = 0
    /\ last = NoToggle
    /\ anchor = NoAnchor
    /\ rows = <<>>
    /\ inflight = {}
    /\ tab = NoTabEvent
    /\ conv = NoConv

Select == SelectWithin(MaxToggles)

Next == Select \/ highlightSelectedText

Spec == Init /\ [][Next]_vars

\* Longer behaviours from one document and one palette.
InitDeep ==
    /\ doc = << <<"A", "B">> >>
    /\ sel = NoSel
    /\ colors = SubSeq(BasePalette, 1, 1)
    /\ persisted = colors
    /\ saves = 0
    /\ notices = <<>>
    /\ toggles = 0
    /\ last = NoToggle
    /\ anchor = NoAnchor
    /\ rows = <<>>
    /\ inflight = {}
    /\ tab = NoTabEvent
    /\ conv = NoConv

SelectDeep == SelectWithin(MaxDeepToggles)

NextDeep == SelectDeep \/ highlightSelectedText

SpecDeep == InitDeep /\ [][NextDeep]_vars

----------------------------------------------------------------------------
(* The colour conversions, lines 346-395.  *)

NumHexChars == 4

\* the characters the colour strings of the model are spelled with: lower
\* and upper case hexadecimal digits and a letter that is no digit
HexAlphabet == <<"f", "0", "A", "g", "9", "c">>
HexLens == {2, 3, 6}

HexDigits == <<"0", "1", "2", "3", "4", "5", "6", "7", "8", "9",
               "a", "b", "c", "d", "e", "f">>
UpperHexDigits == <<"0", "1", "2", "3", "4", "5", "6", "7", "8", "9",
                    "A", "B", "C", "D", "E", "F">>

\* parseInt's reading of one character in radix 16, either case
IsHexDigit(c) == \E d \in 1..16 : HexDigits[d] = c \/ UpperHexDigits[d] = c
HexVal(c) == (CHOOSE d \in 1..16 : HexDigits[d] = c \/ UpperHexDigits[d] = c) - 1

\* the longest prefix of s made of hexadecimal digits
HexPrefix(s) ==
    LET stops == {k \in 1..Len(s) : ~IsHexDigit(s[k])}
    IN  IF stops = {} THEN s ELSE SubSeq(s, 1, Min(stops) - 1)

RECURSIVE HexValue(_)
HexValue(s) ==
    IF s = <<>> THEN 0
    ELSE 16 * HexValue(SubSeq(s, 1, Len(s) - 1)) + HexVal(s[Len(s)])

\* parseInt(s, 16) for a string without white space, sign or "0x" prefix:
\* the value of the longest prefix of hexadecimal digits, NaN when that
\* prefix is empty.  The strings of the model have at most 7 digits.
ParseIntHex(s) ==
    IF HexPrefix(s) = <<>> THEN [nan |-> TRUE, value |-> 0]
    ELSE [nan |-> FALSE, value |-> HexValue(HexPrefix(s))]

\* (n >> k) & 255 with 2^k = p: NaN converts to 0, a number below 2^31 is
\* its own 32-bit value
ShiftAnd255(n, p) == IF n.nan THEN 0 ELSE (n.value \div p) % 256

\* Number.prototype.toString(16) of a non-negative integer
RECURSIVE NatToHex(_)
NatToHex(n) ==
    IF n < 16 THEN <<HexDigits[n + 1]>>
    ELSE NatToHex(n \div 16) \o <<HexDigits[(n % 16) + 1]>>

\* line 347: c.toString(16).padStart(2, '0')
toHex(c) ==
    LET digits == NatToHex(c)
    IN  IF Len(digits) < 2 THEN <<"0">> \o digits ELSE digits

\* lines 346-349
rgbToHex(rgb) == <<"#">> \o toHex(rgb.r) \o toHex(rgb.g) \o toHex(rgb.b)

\* line 352: hex.replace(/^#/, '')
TrimHash(hex) == IF hex # <<>> /\ hex[1] = "#" THEN Tail(hex) ELSE hex

\* lines 351-364 without the doubling of a 3-character string
hexToRGB_NoDoubling(hex) ==
    LET bigint == ParseIntHex(TrimHash(hex))
    IN  [r |-> ShiftAnd255(bigint, 65536),
         g |-> ShiftAnd255(bigint, 256),
         b |-> ShiftAnd255(bigint, 1)]

\* lines 351-364
hexToRGB(hex) ==
    LET trimmed == TrimHash(hex)
        trimmedHex == IF Len(trimmed) = 3
                      THEN <<trimmed[1], trimmed[1], trimmed[2], trimmed[2],
                             trimmed[3], trimmed[3]>>
                      ELSE trimmed
        bigint == ParseIntHex(trimmedHex)
    IN  [r |-> ShiftAnd255(bigint, 65536),
         g |-> ShiftAnd255(bigint, 256),
         b |-> ShiftAnd255(bigint, 1)]

\* lines 366-382.  The hue is the exact fraction num/den; the source divides
\* the channels by 255 first, which changes neither the tests nor, for the
\* colours of the model (channels 0 and 255), the value.
rgbToHue(rgb) ==
    LET max == Max({rgb.r, rgb.g, rgb.b})
        min == Min({rgb.r, rgb.g, rgb.b})
        d == max - min
    IN  IF max = min THEN [num |-> 0, den |-> 1]
        ELSE IF max = rgb.r
        THEN [num |-> (60 * (rgb.g - rgb.b) + 360 * d) % (360 * d), den |-> d]
        ELSE IF max = rgb.g
        THEN [num |-> (60 * (rgb.b - rgb.r) + 120 * d) % (360 * d), den |-> d]
        ELSE [num |-> (60 * (rgb.r - rgb.g) + 240 * d) % (360 * d), den |-> d]

HueLess(hueA, hueB) == hueA.num * hueB.den < hueB.num * hueA.den

\* Array.prototype.sort: stable; before holds the pairs <<j, i>> of
\* positions for which the comparison puts s[j] ahead of s[i]
StableSort(s, before) ==
    LET n == Len(s)
        ahead(i) == {j \in 1..n : j # i /\ (\/ <<j, i>> \in before
                                            \/ j < i /\ <<i, j>> \notin before)}
    IN  [r \in 1..n |-> s[CHOOSE i \in 1..n : Cardinality(ahead(i)) = r - 1]]

\* lines 388-393: hueB - hueA is negative when colorA has the larger hue
HueBefore(colorA, colorB) == HueLess(rgbToHue(colorB.rgb), rgbToHue(colorA.rgb))

\* lines 384-395
sortColorsByBlueToRed(cs) ==
    LET mapped == [i \in 1..Len(cs) |-> [hex |-> cs[i], rgb |-> hexToRGB(cs[i])]]
        sorted == StableSort(mapped,
                      {p \in (1..Len(cs)) \X (1..Len(cs)) :
                           HueBefore(mapped[p[1]], mapped[p[2]])})
    IN  [i \in 1..Len(cs) |-> rgbToHex(sorted[i].rgb)]

\* the UTF-16 code units of the characters of colour strings, ascending
CodeUnitOrder ==
    <<"#", "0", "1", "2", "3", "4", "5", "6", "7", "8", "9",
      "A", "B", "C", "D", "E", "F",
      "a", "b", "c", "d", "e", "f", "g", "l", "u">>
CharCode(c) == CHOOSE i \in 1..Len(CodeUnitOrder) : CodeUnitOrder[i] = c

\* x < y for strings: the first differing code unit decides, a proper
\* prefix comes first
StringLess(x, y) ==
    \E k \in 1..Len(y) :
        /\ \A j \in 1..(k - 1) : j <= Len(x) /\ x[j] = y[j]
        /\ \/ k > Len(x)
           \/ k <= Len(x) /\ CharCode(x[k]) < CharCode(y[k])

\* line 441: colors.sort() with the default comparison
SortStrings(cs) ==
    StableSort(cs, {p \in (1..Len(cs)) \X (1..Len(cs)) : StringLess(cs[p[1]], cs[p[2]])})

\* the strings handed to the conversions: an optional "#" and 2, 3 or 6
\* characters of the alphabet
HexChars == {HexAlphabet[i] : i \in 1..NumHexChars}
HexInputs ==
    LET bodies == UNION {[1..n -> HexChars] : n \in HexLens}
    IN  bodies \cup {<<"#">> \o body : body \in bodies}

\* sortColorsByBlueToRed's use of the conversions on one palette entry:
\* hexToRGB, which has no throw statement and whose operations accept every
\* string, then rgbToHex of its result
Convert ==
    /\ ~conv.done
    /\ conv' = [conv EXCEPT !.done = TRUE,
                            !.rgb = hexToRGB(conv.hex),
                            !.out = rgbToHex(hexToRGB(conv.hex)),
                            !.error = "none"]
    /\ UNCHANGED <<doc, sel, colors, persisted, saves, notices, toggles, last,
                   anchor, rows, inflight, tab>>

InitHex ==
    /\ doc = <<>>
    /\ sel = NoSel
    /\ colors = <<>>
    /\ persisted = colors
    /\ saves = 0
    /\ notices = <<>>
    /\ toggles = 0
    /\ last = NoToggle
    /\ anchor = NoAnchor
    /\ rows = <<>>
    /\ inflight = {}
    /\ tab = NoTabEvent
    /\ conv \in {[NoConv EXCEPT !.hex = h] : h \in HexInputs}

NextHex == Convert

SpecHex == InitHex /\ [][NextHex]_vars

----------------------------------------------------------------------------
(* The settings tab, lines 398-466, and saveSettings, lines 252-254. *)

MaxTabEvents == 3

\* line 420
White == <<"#", "f", "f", "f", "f", "f", "f">>

\* what the user types into a colour's text field: a colour name
TypedValues == { <<"b", "l", "u", "e">> }

\* lines 428-465: display() builds one row per palette entry; the row at
\* 0-based position index shows the entry in its text field, and its
\* handlers keep that index
Render(cs) == [i \in 1..Len(cs) |-> [color |-> cs[i], text |-> cs[i]]]

\* colors[index] = value for an index up to the array's length
SetAt(cs, index, value) ==
    IF index < Len(cs) THEN [cs EXCEPT ![index + 1] = value] ELSE Append(cs, value)

\* line 461: colors.splice(index, 1)
Splice(cs, index) ==
    IF index < Len(cs)
    THEN SubSeq(cs, 1, index) \o SubSeq(cs, index + 2, Len(cs))
    ELSE cs

\* lines 252-254: saveData starts writing the settings as they are at the
\* call; the handler's remaining statements run when the write completes
saveSettings(data, thenDisplay) ==
    /\ saves' = saves + 1
    /\ inflight' = inflight \cup
           {[id |-> saves + 1, data |-> data, thenDisplay |-> thenDisplay]}

\* lines 419-421: the Add button, up to its await
AddClick ==
    LET pushed == Append(colors, White)
        sorted == sortColorsByBlueToRed(pushed)
    IN  /\ tab.n < MaxTabEvents
        /\ colors' = sorted
        /\ saveSettings(sorted, TRUE)
        /\ tab' = [op |-> "add", index |-> 0, pre |-> colors, shown |-> <<>>,
                   issued |-> sorted, n |-> tab.n + 1]
        /\ UNCHANGED <<doc, sel, persisted, notices, toggles, last, anchor, rows, conv>>

\* lines 434-436: the user changes the text of the row at index; events on a
\* row more than one place past the palette's end are left out
TextChange ==
    \E index \in 0..(Len(rows) - 1), value \in TypedValues :
        /\ tab.n < MaxTabEvents
        /\ index <= Len(colors)
        /\ value # rows[index + 1].text
        /\ colors' = SetAt(colors, index, value)
        /\ rows' = [rows EXCEPT ![index + 1].text = value]
        /\ tab' = [tab EXCEPT !.op = "change", !.index = index, !.pre = colors,
                              !.shown = rows[index + 1].text, !.n = tab.n + 1]
        /\ UNCHANGED <<doc, sel, persisted, saves, notices, toggles, last, anchor,
                       inflight, conv>>

\* lines 439-442: the text field of the row at index loses the focus
Blur ==
    \E index \in 0..(Len(rows) - 1) :
        LET sorted == SortStrings(SetAt(colors, index, rows[index + 1].text))
        IN  /\ tab.n < MaxTabEvents
            /\ index <= Len(colors)
            /\ colors' = sorted
            /\ saveSettings(sorted, FALSE)
            /\ tab' = [op |-> "blur", index |-> index, pre |-> colors,
                       shown |-> rows[index + 1].text, issued |-> sorted,
                       n |-> tab.n + 1]
            /\ UNCHANGED <<doc, sel, persisted, notices, toggles, last, anchor,
                           rows, conv>>

\* lines 459-461: the Delete button of the row at index, up to its await
DeleteClick ==
    \E index \in 0..(Len(rows) - 1) :
        LET spliced == Splice(colors, index)
        IN  /\ tab.n < MaxTabEvents
            /\ colors' = spliced
            /\ saveSettings(spliced, TRUE)
            /\ tab' = [op |-> "delete", index |-> index, pre |-> colors,
                       shown |-> rows[index + 1].text, issued |-> spliced,
                       n |-> tab.n + 1]
            /\ UNCHANGED <<doc, sel, persisted, notices, toggles, last, anchor,
                           rows, conv>>

\* A write completes and the handler that awaited it goes on: lines 423 and
\* 462 render the tab again.  Nothing in the source orders two writes that
\* are under way, so either may complete first.
SaveDone ==
    \E s \in inflight :
        /\ inflight' = inflight \ {s}
        /\ persisted' = s.data
        /\ rows' = IF s.thenDisplay THEN Render(colors) ELSE rows
        /\ UNCHANGED <<doc, sel, colors, saves, notices, toggles, last, anchor,
                       tab, conv>>

\* the settings tab is opened on a loaded palette
InitTab ==
    /\ doc = <<>>
    /\ sel = NoSel
    /\ colors \in Palettes
    /\ persisted = colors
    /\ saves = 0
    /\ notices = <<>>
    /\ toggles = 0
    /\ last = NoToggle
    /\ anchor = NoAnchor
    /\ rows = Render(colors)
    /\ inflight = {}
    /\ tab = NoTabEvent
    /\ conv = NoConv

NextTab == AddClick \/ TextChange \/ Blur \/ DeleteClick \/ SaveDone

SpecTab == InitTab /\ [][NextTab]_vars

----------------------------------------------------------------------------
(* Vocabulary of the properties. *)

\* the half-open ranges [a, b) and [c, d) share a character position
Intersects(a, b, c, d) == \E q \in a..(b - 1) : q >= c /\ q < d

Toggled == last.path # "none"
PreLine == last.preDoc[last.line + 1]
PostLine == doc[last.line + 1]
PreMarks == MarkMatches(PreLine)
PreSpans == [k \in 1..Len(PreMarks) |-> <<PreMarks[k].index, PreMarks[k].end>>]
HitSpans == SelectSeq(PreSpans, LAMBDA sp : Intersects(last.from, last.to, sp[1], sp[2]))
OtherLinesKept ==
    /\ Len(doc) = Len(last.preDoc)
    /\ \A l \in 1..Len(doc) : l # last.line + 1 => doc[l] = last.preDoc[l]

\* the text of a line with the opening and the closing tag of the marks
\* numbered in ks deleted, everything else kept, built from right to left
RECURSIVE Unwrapped(_, _, _)
Unwrapped(line, marks, ks) ==
    IF ks = {} THEN line
    ELSE LET k == Max(ks)
             m == marks[k]
         IN  Unwrapped(Slice(line, 0, m.index) \o Slice(line, m.open, m.close)
                           \o Slice(line, m.end, Len(line)),
                       marks, ks \ {k})

HitMarks == {k \in 1..Len(PreMarks) :
                Intersects(last.from, last.to, PreMarks[k].index, PreMarks[k].end)}

\* the length of the text an insertion puts before the colour
HeadLen ==
    IF last.embedded
    THEN Len(TplIndexHead) + Len(NumToString(last.indexOffset)) + Len(TplIndexMid)
    ELSE Len(TplHead)

InsertedColorIs(c) == HasAt(PostLine, last.from + HeadLen, c \o TplTail)

\* number of marks of the text whose opening tag holds a highlightindex
MarksWithIndex(content) ==
    LET all == MarkMatches(content)
    IN  Cardinality({k \in 1..Len(all) :
            \E p \in all[k].index..(all[k].open - 1) :
                HasAt(content, p, HighlightIndexEq) /\ p + 15 < all[k].open})

----------------------------------------------------------------------------
(* Properties. *)

\* C1: with a palette of length n > 0, an insertion gives the new mark the
\* colour palette[(offset + markCount) mod n], offset being the value
\* getColorIndexOffset returned and markCount the number of marks in the
\* document before the insertion.
C1_ColorIsOffsetPlusCountModN ==
    (last.path = "insert" /\ Len(colors) > 0) =>
        InsertedColorIs(colors[((last.indexOffset + last.markCount) % Len(colors)) + 1])

\* C2: after a first insertion into a mark-free document that embedded
\* offset o, the k-th later insertion (k >= 1, no removal in between) reads
\* the offset o and takes the colour palette[(o + k) mod n].
C2_LaterInsertionsRotateFromAnchor ==
    (last.path = "insert" /\ anchor.valid /\ anchor.k >= 1 /\ Len(colors) > 0) =>
        /\ last.indexOffset = anchor.o
        /\ InsertedColorIs(colors[((anchor.o + anchor.k) % Len(colors)) + 1])

\* C3: with an empty palette, a toggle on a non-empty selection that
\* overlaps no mark leaves the document unchanged and reports
\* NoColorsConfigured.
C3_EmptyPaletteNoEdit ==
    (Toggled /\ colors = <<>> /\ last.from < last.to /\ HitMarks = {}) =>
        /\ doc = last.preDoc
        /\ \E i \in 1..Len(notices) : notices[i] = "NoColorsConfigured"

\* C4: the offset drawn and embedded by an insertion into a document with
\* no marks, palette length n >= 1, is an integer o with 0 <= o < n.
C4_DrawnOffsetBelowLength ==
    (last.path = "insert" /\ last.markCount = 0 /\ last.drew /\ Len(colors) >= 1) =>
        \E o \in 0..(Len(colors) - 1) :
            HasAt(PostLine, last.from, TplIndexHead \o NumToString(o) \o TplIndexMid)

\* C5: a toggle on a non-empty selection removes exactly when the selection
\* shares a character position with some mark of the current line (touching
\* a mark's boundary is not overlapping), inserts otherwise, and the spans
\* it unwraps are exactly the overlapping ones.
C5_RemovalIffOverlap ==
    (Toggled /\ last.from < last.to) =>
        /\ last.path = "remove" <=> HitMarks # {}
        /\ last.path = "insert" <=> HitMarks = {}
        /\ last.path = "remove" => last.spans = HitSpans

C5_Witness ==
    /\ last.path = "insert"
    /\ last.from < last.to
    /\ \E k \in 1..Len(PreMarks) : PreMarks[k].index = last.to

\* C6: when the selection overlaps exactly one mark, the line after the
\* toggle is the line before it with that mark's opening and closing tag
\* deleted and every other character kept.
C6_SingleMarkUnwrapped ==
    (last.path = "remove" /\ Cardinality(HitMarks) = 1) =>
        /\ PostLine = Unwrapped(PreLine, PreMarks, HitMarks)
        /\ OtherLinesKept

\* C7: when the selection overlaps two or more marks of the line, the line
\* after the toggle is the line before it with the tags of every
\* overlapping mark deleted and all other text kept.
C7_AllOverlappingUnwrapped ==
    (last.path = "remove" /\ Cardinality(HitMarks) >= 2) =>
        /\ PostLine = Unwrapped(PreLine, PreMarks, HitMarks)
        /\ OtherLinesKept

\* the text "<mark" and "</mark" occurs in the line only where a mark of
\* the line has its opening or its closing tag
TagTextOnlyInMarks(line) ==
    LET marks == MarkMatches(line)
    IN  \A i \in 0..(Len(line) - 1) :
            (HasAt(line, i, MarkOpen) \/ HasAt(line, i, MarkCloseOpen)) =>
                \E k \in 1..Len(marks) : i = marks[k].index \/ i = marks[k].close

\* where the mark put in by the last insertion ends
NewMarkEnd == last.to + (Len(PostLine) - Len(PreLine))

\* the last toggle inserted a mark, and the selection now made on the same
\* line is not empty and overlaps that mark
SelectedNewMark ==
    /\ last.path = "insert"
    /\ sel # NoSel
    /\ sel.line = last.line
    /\ sel.from < sel.to
    /\ Intersects(sel.from, sel.to, last.from, NewMarkEnd)

\* the selection overlaps no mark of the line but the one that starts where
\* the last insertion put its mark
SelectedNoOtherMark ==
    LET marks == MarkMatches(doc[sel.line + 1])
    IN  \A k \in 1..Len(marks) :
            Intersects(sel.from, sel.to, marks[k].index, marks[k].end) =>
                marks[k].index = last.from

\* no colour of the palette holds a character that opens or closes a tag
PlainPalette ==
    \A c \in 1..Len(colors) : \A j \in 1..Len(colors[c]) : colors[c][j] \notin {"<", ">"}

ToggleStep == toggles' = toggles + 1

C9_EmptySelectionNoop ==
    [][(sel # NoSel /\ sel.from = sel.to /\ ToggleStep) =>
            /\ doc' = doc
            /\ colors' = colors
            /\ persisted' = persisted
            /\ saves' = saves]_vars

C9_Witness ==
    /\ last.path = "noop"
    /\ doc = last.preDoc
    /\ \E k \in 1..Len(PreMarks) :
           PreMarks[k].index < last.from /\ last.from < PreMarks[k].end

\* C10: an insertion embeds the highlightindex attribute exactly when the
\* document held no mark before it, and at most one mark of the document
\* carries a highlightindex attribute.
C10_IndexOnFirstMarkOnly ==
    /\ last.path = "insert" =>
           (HasAt(PostLine, last.from, TplIndexHead) <=> last.markCount = 0)
    /\ MarksWithIndex(Content(doc)) <= 1

\* C11: an insertion into a document that holds at least one mark uses an
\* offset read from the document's markup, never a fresh random draw, also
\* after insert A, insert B, remove A.
C11_DrawOnlyWhenNoMarks ==
    (last.path = "insert" /\ last.markCount >= 1) => ~last.drew

\* the string is an optional "#" and exactly 3 or 6 hexadecimal digits
ValidHex(h) ==
    /\ Len(TrimHash(h)) \in {3, 6}
    /\ \A k \in 1..Len(TrimHash(h)) : IsHexDigit(TrimHash(h)[k])

ToLower(c) == IF IsHexDigit(c) THEN HexDigits[HexVal(c) + 1] ELSE c

\* "#" and 6 lower case digits, each digit of a 3-digit string doubled
Canonical(h) ==
    LET t == TrimHash(h)
        six == IF Len(t) = 3 THEN <<t[1], t[1], t[2], t[2], t[3], t[3]>> ELSE t
    IN  <<"#">> \o [k \in 1..Len(six) |-> ToLower(six[k])]

\* C14: hexToRGB of a string that is not an optional "#" and exactly 3 or 6
\* hexadecimal digits fails with InvalidColorFormat and returns no RGB
\* value, and the hue sort of "add" fed with such a string leaves the
\* palette unchanged.
C14_InvalidHexRejected ==
    /\ (conv.done /\ ~ValidHex(conv.hex)) => conv.error = "InvalidColorFormat"
    /\ (tab.op = "add" /\ \E i \in 1..Len(tab.pre) : ~ValidHex(tab.pre[i])) =>
           colors = tab.pre

\* C15: for every valid 3-digit or 6-digit colour string, with or without
\* "#", in either case, rgbToHex(hexToRGB(h)) is "#" followed by the 6 lower
\* case digits of h, a 3-digit h having each digit doubled.
C15_RoundTripCanonical ==
    (conv.done /\ ValidHex(conv.hex)) => conv.out = Canonical(conv.hex)

C15_Witness ==
    /\ conv.done
    /\ ValidHex(conv.hex)
    /\ Len(conv.hex) = 3
    /\ \E k \in 1..3 : conv.hex[k] = "A"
    /\ conv.out = Canonical(conv.hex)

\* C12: every change of the in-memory palette comes with a save issued by
\* the same handler, so whenever no save is under way and no handler is
\* waiting, the persisted palette equals the in-memory palette.
C12_PersistedFollowsMemory ==
    inflight = {} => persisted = colors

\* C13: saves never overlap and take effect in the order issued: at most
\* one write is under way at a time, and once none is, the persisted
\* palette is the one of the save issued last.
C13_SavesInOrder ==
    /\ Cardinality(inflight) <= 1
    /\ (inflight = {} /\ saves > 0) => persisted = tab.issued

\* the hues of the entries, read as hexToRGB reads them, never increase
HueDescending(cs) ==
    \A i, j \in 1..Len(cs) :
        i < j => ~HueLess(rgbToHue(hexToRGB(cs[i])), rgbToHue(hexToRGB(cs[j])))

\* cs with its k-th entry taken out, the others in their order
WithoutAt(cs, k) == SubSeq(cs, 1, k - 1) \o SubSeq(cs, k + 1, Len(cs))

\* C16: after "add" and after an edit committed on blur the palette is
\* ordered by hue descending; a delete at a position of the palette takes
\* out exactly the entry at that position and keeps the order of the rest.
C16_OrderPerOperation ==
    /\ tab.op \in {"add", "blur"} => HueDescending(colors)
    /\ (tab.op = "delete" /\ tab.index < Len(tab.pre)) =>
           colors = WithoutAt(tab.pre, tab.index + 1)

\* C17: an insertion with a non-empty palette takes a colour index within
\* the palette: the background colour of the inserted mark is an entry of
\* the current palette.
C17_InsertedColorInPalette ==
    (last.path = "insert" /\ Len(colors) > 0) =>
        \E i \in 0..(Len(colors) - 1) : InsertedColorIs(colors[i + 1])

\* C18: the handlers of a row act on the entry the row displays: a text
\* change or blur finds at the row's index the entry the row showed, and
\* Delete removes an occurrence of the entry the row shows.
C18_RowActsOnItsEntry ==
    /\ tab.op \in {"change", "blur"} =>
           /\ tab.index < Len(tab.pre)
           /\ tab.pre[tab.index + 1] = tab.shown
    /\ tab.op = "delete" =>
           \E k \in 1..Len(tab.pre) :
               tab.pre[k] = tab.shown /\ colors = WithoutAt(tab.pre, k)

Count(cs, v) == Cardinality({i \in 1..Len(cs) : cs[i] = v})

\* C19: after "add" the palette holds, as a multiset, the entries it held
\* before, each in canonical form, and one more "#ffffff".
C19_AddKeepsEntries ==
    tab.op = "add" =>
        LET before == [i \in 1..Len(tab.pre) |-> Canonical(tab.pre[i])]
            values == {colors[i] : i \in 1..Len(colors)}
                          \cup {before[i] : i \in 1..Len(before)} \cup {White}
        IN  \A v \in values :
                Count(colors, v) = Count(before, v) + (IF v = White THEN 1 ELSE 0)

====
